---- MODULE Spec2Model ----
(***************************************************************************)
(* A model of mips_to_c (src/main.py): the block builder and the recursive *)
(* flow analysis of do_flow_analysis, and the stack-frame inference of     *)
(* find_stack_info.                                                        *)
(*                                                                         *)
(* Python values are modelled as records:                                  *)
(*   Label        [kind |-> "Label", name]                                 *)
(*   Instruction  [kind |-> "Instruction", mnemonic, args]                 *)
(*   Argument     [type |-> "Register", register_name]                     *)
(*                [type |-> "JumpTarget", target]                          *)
(*                [type |-> "NumberLiteral", value]                        *)
(*                [type |-> "AddressMode", lhs, rhs]   (lhs may be None)   *)
(*   Block        [index, label, instructions]         (label may be None) *)
(*   Node         [type |-> "ExitNode", block]                             *)
(*                [type |-> "BasicNode", block, exit_edge]                 *)
(*                [type |-> "ConditionalNode", block, conditional_edge,    *)
(*                                              fallthrough_edge]          *)
(* An edge of a Node is recorded as the index of the block of the Node it  *)
(* points to: a Node is found by its block (get_block_analysis), and every *)
(* use of an edge in the source reads edge.block.index.                    *)
(* An uncaught Python exception is a terminal value of pc.                 *)
(***************************************************************************)
EXTENDS Integers, Sequences, FiniteSets, TLC

VARIABLES
    pc,                 \* where the program is, or the exception that ended it
    body,               \* function.body
    body_iter,          \* number of items of body the iterator has yielded
    blocks,             \* do_flow_analysis: blocks
    curr_index,         \* do_flow_analysis: curr_index
    curr_label,         \* do_flow_analysis: curr_label
    curr_instructions,  \* do_flow_analysis: curr_instructions
    nodes,              \* do_flow_analysis: nodes
    stack,              \* the active do_block_analysis calls, innermost last
    call,               \* <<b>>: get_block_analysis(blocks[b]) has just been called
    ret,                \* <<b>>: get_block_analysis has just returned the Node of block b
    analysed,           \* how many times do_block_analysis was entered, per block index
    allocated_stack_size,
    is_leaf,
    local_vars_region_bottom,
    return_addr_location,
    callee_save_reg_locations,
    inst_iter,          \* find_stack_info: instructions of the entry block scanned so far
    node_iter,          \* translate_to_ast: nodes the lifting loop has enumerated
    reg,                \* translate_block_body: the register map of the current call
    to_store,           \* translate_block_body: to_store
    instr_iter,         \* translate_block_body: instructions of the block processed
    calls,              \* the translate_block_body calls made so far: the index of
                        \* the block and the register map each was given
    caught,             \* the exceptions the lifting loop has caught: the index of
                        \* the block, the instructions processed before, the name
    arg_str,            \* parse_arg: the operand string, a sequence of characters
    parsed,             \* parse_arg(arg_str)
    printed,            \* str(parsed)
    reparsed            \* parse_arg(printed)

flow_vars == <<body, body_iter, blocks, curr_index, curr_label, curr_instructions,
               nodes, stack, call, ret, analysed>>
stack_vars == <<allocated_stack_size, is_leaf, local_vars_region_bottom,
                return_addr_location, callee_save_reg_locations, inst_iter>>
lift_vars == <<node_iter, reg, to_store, instr_iter, calls, caught>>
parse_vars == <<arg_str, parsed, printed, reparsed>>
vars == <<pc, flow_vars, stack_vars, lift_vars, parse_vars>>

-----------------------------------------------------------------------------
(* Bounds of the model *)

\* longest function body (labels and instructions) that is explored
MaxBody == 5
\* deepest nesting of do_block_analysis calls before Python's RecursionError;
\* a recursion without a cycle is never deeper than the number of blocks
MaxDepth == 5
\* longest entry block that find_stack_info is run on
MaxEntry == 4

-----------------------------------------------------------------------------
(* Values *)

None == [type |-> "None"]

Register(register_name) == [type |-> "Register", register_name |-> register_name]

JumpTarget(target) == [type |-> "JumpTarget", target |-> target]

NumberLiteral(value) == [type |-> "NumberLiteral", value |-> value]

AddressMode(lhs, rhs) == [type |-> "AddressMode", lhs |-> lhs, rhs |-> rhs]

Label(name) == [kind |-> "Label", name |-> name]

Instruction(mnemonic, args) == [kind |-> "Instruction", mnemonic |-> mnemonic, args |-> args]

Block(index, label, instructions) ==
    [index |-> index, label |-> label, instructions |-> instructions]

ExitNode(block) == [type |-> "ExitNode", block |-> block]

BasicNode(block, exit_edge) ==
    [type |-> "BasicNode", block |-> block, exit_edge |-> exit_edge]

ConditionalNode(block, conditional_edge, fallthrough_edge) ==
    [type |-> "ConditionalNode", block |-> block,
     conditional_edge |-> conditional_edge, fallthrough_edge |-> fallthrough_edge]

BranchMnemonics == {"b", "beq", "bne", "bgez", "bgtz", "blez", "bltz"}

\* Instruction.is_branch_instruction
is_branch_instruction(inst) == inst.mnemonic \in BranchMnemonics

\* is_loop_edge(node, edge), with the edge given by its block index
is_loop_edge(node, edge) == edge < node.block.index

\* BasicNode.is_loop / ConditionalNode.is_loop
is_loop(node) ==
    IF node.type = "BasicNode" THEN is_loop_edge(node, node.exit_edge)
    ELSE is_loop_edge(node, node.conditional_edge)

-----------------------------------------------------------------------------
(* The function bodies explored *)

LabelNames == {"L1", "L2"}

BodyItems ==
    {Label(n) : n \in LabelNames}
    \cup {Instruction("nop", <<>>)}
    \cup {Instruction("b", <<JumpTarget(n)>>) : n \in LabelNames}
    \cup {Instruction("bne", <<Register("a0"), Register("a1"), JumpTarget(n)>>) :
             n \in LabelNames}

Bodies == UNION {[1..n -> BodyItems] : n \in 0..MaxBody}

-----------------------------------------------------------------------------
(* do_flow_analysis: building the blocks *)

\* new_block(): the blocks, curr_index, curr_label and curr_instructions after
\* it, from curr_instructions cis and curr_label lbl before
NewBlockEmits(cis) == Len(cis) # 0

\* new_block without "curr_index += 1"
NewBlockIndex_Stuck == curr_index

NewBlockIndex == curr_index + 1

new_block(cis, lbl) ==
    IF ~NewBlockEmits(cis)
    THEN [blocks |-> blocks, curr_index |-> curr_index,
          curr_label |-> lbl, curr_instructions |-> cis]
    ELSE [blocks |-> Append(blocks, Block(curr_index, lbl, cis)),
          curr_index |-> NewBlockIndex,
          curr_label |-> None, curr_instructions |-> <<>>]

\* for item in body_iter: item is a Label
TakeLabel ==
    /\ pc = "build"
    /\ body_iter < Len(body)
    /\ body[body_iter + 1].kind = "Label"
    /\ LET nb == new_block(curr_instructions, curr_label) IN
        /\ blocks' = nb.blocks
        /\ curr_index' = nb.curr_index
        /\ curr_instructions' = nb.curr_instructions
        /\ curr_label' = body[body_iter + 1]
    /\ body_iter' = body_iter + 1
    /\ UNCHANGED <<pc, body, nodes, stack, call, ret, analysed, stack_vars, lift_vars, parse_vars>>

\* for item in body_iter: item is an Instruction that is no branch
TakeInstruction ==
    /\ pc = "build"
    /\ body_iter < Len(body)
    /\ body[body_iter + 1].kind = "Instruction"
    /\ ~is_branch_instruction(body[body_iter + 1])
    /\ curr_instructions' = Append(curr_instructions, body[body_iter + 1])
    /\ body_iter' = body_iter + 1
    /\ UNCHANGED <<pc, body, blocks, curr_index, curr_label, nodes, stack, call, ret,
                   analysed, stack_vars, lift_vars, parse_vars>>

\* the elements a branch takes with it into the block: the element that
\* next(body_iter) yields, whatever it is
DelaySlot(i) == <<body[i]>>

\* for item in body_iter: item is a branch Instruction; next(body_iter) is
\* taken as its delay slot and the block is split
TakeBranch ==
    /\ pc = "build"
    /\ body_iter < Len(body)
    /\ body[body_iter + 1].kind = "Instruction"
    /\ is_branch_instruction(body[body_iter + 1])
    /\ IF body_iter + 1 >= Len(body)
       THEN \* next(body_iter) on the exhausted iterator
            /\ pc' = "StopIteration"
            /\ curr_instructions' = Append(curr_instructions, body[body_iter + 1])
            /\ body_iter' = body_iter + 1
            /\ UNCHANGED <<blocks, curr_index, curr_label>>
       ELSE LET nb == new_block(Append(curr_instructions, body[body_iter + 1])
                                    \o DelaySlot(body_iter + 2),
                                curr_label) IN
            /\ blocks' = nb.blocks
            /\ curr_index' = nb.curr_index
            /\ curr_label' = nb.curr_label
            /\ curr_instructions' = nb.curr_instructions
            /\ body_iter' = body_iter + 2
            /\ pc' = pc
    /\ UNCHANGED <<body, nodes, stack, call, ret, analysed, stack_vars, lift_vars, parse_vars>>

\* the ExitNode built for blocks[0] instead of blocks[-1]
ExitBlock_First(bs) == bs[1]

\* the block that gets the ExitNode: blocks[-1]
ExitBlock(bs) == bs[Len(bs)]

\* the loop over the body is over: the last new_block(), the ExitNode, and the
\* call get_block_analysis(blocks[0])
BuildEdges ==
    /\ pc = "build"
    /\ body_iter = Len(body)
    /\ LET nb == new_block(curr_instructions, curr_label) IN
        /\ blocks' = nb.blocks
        /\ curr_index' = nb.curr_index
        /\ curr_label' = nb.curr_label
        /\ curr_instructions' = nb.curr_instructions
        /\ IF Len(nb.blocks) = 0
           THEN \* blocks[-1] of an empty list
                /\ pc' = "IndexError"
                /\ UNCHANGED <<nodes, call, analysed>>
           ELSE /\ pc' = "edges"
                /\ nodes' = <<ExitNode(ExitBlock(nb.blocks))>>
                /\ call' = <<0>>
                /\ analysed' = [i \in 0..(Len(nb.blocks) - 1) |-> 0]
    /\ UNCHANGED <<body, body_iter, stack, ret, stack_vars, lift_vars, parse_vars>>

-----------------------------------------------------------------------------
(* do_flow_analysis: building the edges *)

\* find_block_by_label(label): the first block whose label has that name, or None
RECURSIVE FindBlockFrom(_, _, _)
FindBlockFrom(bs, target, i) ==
    IF i > Len(bs) THEN None
    ELSE IF bs[i].label # None /\ bs[i].label.name = target THEN bs[i]
    ELSE FindBlockFrom(bs, target, i + 1)

find_block_by_label(bs, label) == FindBlockFrom(bs, label.target, 1)

\* get_block_analysis's search: the positions in nodes of the Nodes of the block
NodesOf(ns, block) == {i \in 1..Len(ns) : ns[i].block = block}

\* "for node in nodes: if node.block == block: return node" finds a Node
Analysed(ns, block) == NodesOf(ns, block) # {}

FirstNodeOf(ns, block) == ns[CHOOSE i \in NodesOf(ns, block) :
                               \A j \in NodesOf(ns, block) : i <= j]

\* get_block_analysis(block) finds the block's Node in nodes and returns it
GetBlockAnalysisFound ==
    /\ pc = "edges"
    /\ call # <<>>
    /\ Analysed(nodes, blocks[call[1] + 1])
    /\ ret' = <<FirstNodeOf(nodes, blocks[call[1] + 1]).block.index>>
    /\ call' = <<>>
    /\ UNCHANGED <<pc, body, body_iter, blocks, curr_index, curr_label,
                   curr_instructions, nodes, stack, analysed, stack_vars, lift_vars, parse_vars>>

\* "inst for inst in block.instructions if inst.is_branch_instruction()"
Branches(block) == SelectSeq(block.instructions, is_branch_instruction)

\* a Label that next(body_iter) put among a block's instructions has no
\* is_branch_instruction
HasLabel(block) ==
    \E i \in 1..Len(block.instructions) : block.instructions[i].kind = "Label"

\* the block after this one: blocks[block.index + 1]
NextIndex(block) == block.index + 1

\* what do_block_analysis(block) does up to its first recursive call:
\* the exception it ends with, or the block whose Node it asks for
FirstStep(block) ==
    IF HasLabel(block) THEN [pc |-> "AttributeError"]
    ELSE LET branches == Branches(block) IN
        IF Len(branches) = 0
        THEN IF NextIndex(block) >= Len(blocks) THEN [pc |-> "IndexError"]
             ELSE [pc |-> "edges", wait |-> "exit", target |-> NextIndex(block)]
        ELSE IF Len(branches) = 1
        THEN LET branch == branches[1] IN
            IF Len(branch.args) = 0 THEN [pc |-> "IndexError"]
            ELSE LET branch_label == branch.args[Len(branch.args)] IN
                IF branch_label.type # "JumpTarget" THEN [pc |-> "AssertionError"]
                ELSE LET branch_block == find_block_by_label(blocks, branch_label) IN
                    IF branch_block = None THEN [pc |-> "AssertionError"]
                    ELSE [pc |-> "edges", wait |-> "branch",
                          target |-> branch_block.index]
        ELSE [pc |-> "SystemExit"]

\* get_block_analysis(block) finds no Node and calls do_block_analysis(block),
\* which runs up to its first recursive call
DoBlockAnalysis ==
    /\ pc = "edges"
    /\ call # <<>>
    /\ ~Analysed(nodes, blocks[call[1] + 1])
    /\ IF Len(stack) >= MaxDepth
       THEN /\ pc' = "RecursionError"
            /\ UNCHANGED <<stack, call, analysed>>
       ELSE LET block == blocks[call[1] + 1]
                step == FirstStep(block) IN
            /\ analysed' = [analysed EXCEPT ![block.index] = @ + 1]
            /\ pc' = step.pc
            /\ IF step.pc = "edges"
               THEN /\ stack' = Append(stack, [block |-> block, wait |-> step.wait,
                                               branch_node |-> -1])
                    /\ call' = <<step.target>>
               ELSE UNCHANGED <<stack, call>>
    /\ UNCHANGED <<body, body_iter, blocks, curr_index, curr_label,
                   curr_instructions, nodes, ret, stack_vars, lift_vars, parse_vars>>

Top == stack[Len(stack)]

Pop == SubSeq(stack, 1, Len(stack) - 1)

\* every branch taken for a constant branch
IsConstantBranch_Always(branch) == TRUE

\* no branch taken for a constant branch
IsConstantBranch_Never(branch) == FALSE

\* is_constant_branch
IsConstantBranch(branch) == branch.mnemonic = "b"

\* the successor of a block without branches, or of a block ending in "b", is
\* analysed: do_block_analysis returns a BasicNode, get_block_analysis appends it
ReturnBasicNode ==
    /\ pc = "edges"
    /\ ret # <<>>
    /\ stack # <<>>
    /\ \/ Top.wait = "exit"
       \/ Top.wait = "branch" /\ IsConstantBranch(Branches(Top.block)[1])
    /\ nodes' = Append(nodes, BasicNode(Top.block, ret[1]))
    /\ ret' = <<Top.block.index>>
    /\ stack' = Pop
    /\ UNCHANGED <<pc, body, body_iter, blocks, curr_index, curr_label,
                   curr_instructions, call, analysed, stack_vars, lift_vars, parse_vars>>

\* the target of a conditional branch is analysed: do_block_analysis goes on to
\* the fallthrough block
AnalyseFallthrough ==
    /\ pc = "edges"
    /\ ret # <<>>
    /\ stack # <<>>
    /\ Top.wait = "branch"
    /\ ~IsConstantBranch(Branches(Top.block)[1])
    /\ IF ~(Len(blocks) > Top.block.index + 1)
       THEN /\ pc' = "AssertionError"
            /\ UNCHANGED <<stack, call, ret>>
       ELSE /\ pc' = pc
            /\ stack' = Append(Pop, [block |-> Top.block, wait |-> "fallthrough",
                                     branch_node |-> ret[1]])
            /\ call' = <<NextIndex(Top.block)>>
            /\ ret' = <<>>
    /\ UNCHANGED <<body, body_iter, blocks, curr_index, curr_label,
                   curr_instructions, nodes, analysed, stack_vars, lift_vars, parse_vars>>

\* the fallthrough block is analysed: do_block_analysis returns a
\* ConditionalNode, get_block_analysis appends it
ReturnConditionalNode ==
    /\ pc = "edges"
    /\ ret # <<>>
    /\ stack # <<>>
    /\ Top.wait = "fallthrough"
    /\ nodes' = Append(nodes, ConditionalNode(Top.block, Top.branch_node, ret[1]))
    /\ ret' = <<Top.block.index>>
    /\ stack' = Pop
    /\ UNCHANGED <<pc, body, body_iter, blocks, curr_index, curr_label,
                   curr_instructions, call, analysed, stack_vars, lift_vars, parse_vars>>

\* nodes.sort(key=lambda node: node.block.index): a stable sort
RECURSIVE InsertNode(_, _)
InsertNode(sorted, node) ==
    IF sorted = <<>> THEN <<node>>
    ELSE IF sorted[Len(sorted)].block.index <= node.block.index
         THEN Append(sorted, node)
         ELSE Append(InsertNode(SubSeq(sorted, 1, Len(sorted) - 1), node),
                     sorted[Len(sorted)])

RECURSIVE SortNodes(_)
SortNodes(ns) ==
    IF ns = <<>> THEN <<>>
    ELSE InsertNode(SortNodes(SubSeq(ns, 1, Len(ns) - 1)), ns[Len(ns)])

\* get_block_analysis(entrance_block) has returned: sort the nodes and return
\* FlowAnalysis(nodes)
ReturnFlowAnalysis ==
    /\ pc = "edges"
    /\ ret # <<>>
    /\ stack = <<>>
    /\ nodes' = SortNodes(nodes)
    /\ pc' = "done"
    /\ ret' = <<>>
    /\ UNCHANGED <<body, body_iter, blocks, curr_index, curr_label,
                   curr_instructions, stack, call, analysed, stack_vars, lift_vars, parse_vars>>

-----------------------------------------------------------------------------
(* The specification of do_flow_analysis *)

StackInit ==
    /\ allocated_stack_size = 0
    /\ is_leaf = TRUE
    /\ local_vars_region_bottom = 0
    /\ return_addr_location = 0
    /\ callee_save_reg_locations = <<>>
    /\ inst_iter = 0

\* translate_block_body has not been called
NotLifting ==
    /\ node_iter = 0
    /\ reg = <<>>
    /\ to_store = <<>>
    /\ instr_iter = 0
    /\ calls = <<>>
    /\ caught = <<>>

\* parse_arg has not been called
NotParsing ==
    /\ arg_str = <<>>
    /\ parsed = None
    /\ printed = <<>>
    /\ reparsed = None

Init ==
    /\ pc = "build"
    /\ body \in Bodies
    /\ body_iter = 0
    /\ blocks = <<>>
    /\ curr_index = 0
    /\ curr_label = None
    /\ curr_instructions = <<>>
    /\ nodes = <<>>
    /\ stack = <<>>
    /\ call = <<>>
    /\ ret = <<>>
    /\ analysed = <<>>
    /\ StackInit
    /\ NotLifting
    /\ NotParsing

Next ==
    \/ TakeLabel
    \/ TakeInstruction
    \/ TakeBranch
    \/ BuildEdges
    \/ GetBlockAnalysisFound
    \/ DoBlockAnalysis
    \/ ReturnBasicNode
    \/ AnalyseFallthrough
    \/ ReturnConditionalNode
    \/ ReturnFlowAnalysis

Spec == Init /\ [][Next]_vars

-----------------------------------------------------------------------------
(* translate_to_ast: find_stack_info *)

\* Register.is_callee_save: re.match('s[0-7]', register_name); of the names of
\* the MIPS registers, the ones that begin so are s0..s7
CalleeSaveNames == {"s0", "s1", "s2", "s3", "s4", "s5", "s6", "s7"}

is_callee_save(register) == register.register_name \in CalleeSaveNames

\* the instructions of entry blocks that are explored
EntryInstructions ==
    { Instruction("addiu", <<Register("sp"), Register("sp"), NumberLiteral(-32)>>),
      Instruction("addiu", <<Register("sp"), Register("sp"), NumberLiteral(32)>>),
      Instruction("addiu", <<Register("v0"), Register("sp"), NumberLiteral(16)>>),
      Instruction("sw", <<Register("ra"), AddressMode(NumberLiteral(28), Register("sp"))>>),
      Instruction("sw", <<Register("ra"), AddressMode(None, Register("sp"))>>),
      Instruction("sw", <<Register("ra"), AddressMode(NumberLiteral(28), Register("a0"))>>),
      Instruction("sw", <<Register("s0"), AddressMode(NumberLiteral(24), Register("sp"))>>),
      Instruction("sw", <<Register("s1"), AddressMode(NumberLiteral(36), Register("sp"))>>),
      Instruction("sw", <<Register("s1"), AddressMode(None, Register("sp"))>>),
      Instruction("sw", <<Register("s0"), AddressMode(NumberLiteral(24), Register("a0"))>>),
      Instruction("sw", <<Register("a0"), AddressMode(NumberLiteral(32), Register("sp"))>>),
      Instruction("nop", <<>>) }

EntryBlocks == UNION {[1..n -> EntryInstructions] : n \in 1..MaxEntry}

\* start_node.block.instructions, start_node being flow_analysis.nodes[0]
StartInstructions == nodes[1].block.instructions

\* the instruction the loop of find_stack_info is at
CurrentInst == StartInstructions[inst_iter + 1]

Scanning ==
    /\ pc = "find_stack_info"
    /\ inst_iter < Len(StartInstructions)

\* the first branch of the if: 'addiu' with destination sp
MovesStackPointer(inst) ==
    /\ inst.mnemonic = "addiu"
    /\ inst.args[1].register_name = "sp"

\* the second branch: 'sw' with destination ra
SavesReturnAddress(inst) ==
    /\ ~MovesStackPointer(inst)
    /\ inst.mnemonic = "sw"
    /\ inst.args[1].register_name = "ra"

\* the third branch: 'sw' of a callee-save register to an address on sp
SavesCalleeSave(inst) ==
    /\ ~MovesStackPointer(inst)
    /\ ~SavesReturnAddress(inst)
    /\ inst.mnemonic = "sw"
    /\ is_callee_save(inst.args[1])
    /\ inst.args[2].type = "AddressMode"
    /\ inst.args[2].rhs.type = "Register"
    /\ inst.args[2].rhs.register_name = "sp"

\* "if not inst.args: continue", or no branch of the if applies
SkipInstruction ==
    /\ Scanning
    /\ \/ CurrentInst.args = <<>>
       \/ /\ CurrentInst.args # <<>>
          /\ ~MovesStackPointer(CurrentInst)
          /\ ~SavesReturnAddress(CurrentInst)
          /\ ~SavesCalleeSave(CurrentInst)
    /\ inst_iter' = inst_iter + 1
    /\ UNCHANGED <<pc, flow_vars, lift_vars, parse_vars, allocated_stack_size, is_leaf, local_vars_region_bottom,
                   return_addr_location, callee_save_reg_locations>>

\* allocated_stack_size after "addiu sp, sp, imm" is seen
StackSizeAfter(imm) == -imm

\* Moving the stack pointer.
MoveStackPointer ==
    /\ Scanning
    /\ CurrentInst.args # <<>>
    /\ MovesStackPointer(CurrentInst)
    /\ IF CurrentInst.args[3].type # "NumberLiteral"
       THEN /\ pc' = "AssertionError"
            /\ UNCHANGED <<allocated_stack_size, inst_iter>>
       ELSE /\ pc' = pc
            /\ allocated_stack_size' =
                   StackSizeAfter(CurrentInst.args[3].value)
            /\ inst_iter' = inst_iter + 1
    /\ UNCHANGED <<flow_vars, lift_vars, parse_vars, is_leaf, local_vars_region_bottom, return_addr_location,
                   callee_save_reg_locations>>

\* the offset an AddressMode names: lhs.value, or 0 when there is no lhs
OffsetOf(address) == IF address.lhs # None THEN address.lhs.value ELSE 0

\* the asserts on the operand of "sw ra" hold
ReturnAddressOperandOk(address) ==
    /\ address.type = "AddressMode"
    /\ address.rhs.type = "Register"
    /\ address.rhs.register_name = "sp"
    /\ address.lhs # None => address.lhs.type = "NumberLiteral"

\* Saving the return address on the stack.
SaveReturnAddress ==
    /\ Scanning
    /\ CurrentInst.args # <<>>
    /\ SavesReturnAddress(CurrentInst)
    /\ IF ~ReturnAddressOperandOk(CurrentInst.args[2])
       THEN /\ pc' = "AssertionError"
            /\ is_leaf' = (IF /\ CurrentInst.args[2].type = "AddressMode"
                              /\ CurrentInst.args[2].rhs.type = "Register"
                              /\ CurrentInst.args[2].rhs.register_name = "sp"
                           THEN FALSE ELSE is_leaf)
            /\ UNCHANGED <<return_addr_location, inst_iter>>
       ELSE /\ pc' = pc
            /\ is_leaf' = FALSE
            /\ return_addr_location' = OffsetOf(CurrentInst.args[2])
            /\ inst_iter' = inst_iter + 1
    /\ UNCHANGED <<flow_vars, lift_vars, parse_vars, allocated_stack_size, local_vars_region_bottom,
                   callee_save_reg_locations>>

\* callee_save_reg_locations[destination] = value
SetItem(dict, key, value) ==
    [k \in DOMAIN dict \cup {key} |-> IF k = key THEN value ELSE dict[k]]

\* Initial saving of callee-save register onto the stack.
SaveCalleeSave ==
    /\ Scanning
    /\ CurrentInst.args # <<>>
    /\ SavesCalleeSave(CurrentInst)
    /\ IF CurrentInst.args[2].lhs # None /\ CurrentInst.args[2].lhs.type # "NumberLiteral"
       THEN /\ pc' = "AssertionError"
            /\ UNCHANGED <<callee_save_reg_locations, inst_iter>>
       ELSE /\ pc' = pc
            /\ callee_save_reg_locations' =
                   SetItem(callee_save_reg_locations, CurrentInst.args[1].register_name,
                           OffsetOf(CurrentInst.args[2]))
            /\ inst_iter' = inst_iter + 1
    /\ UNCHANGED <<flow_vars, lift_vars, parse_vars, allocated_stack_size, is_leaf, local_vars_region_bottom,
                   return_addr_location>>

\* max(callee_save_reg_locations.values())
MaxValue(dict) ==
    CHOOSE v \in {dict[k] : k \in DOMAIN dict} : \A k \in DOMAIN dict : dict[k] <= v

\* the callee-save case taken whether or not the function is a leaf
LocalVarsRegionBottom_CalleeSaveFirst(leaf, callee_save, return_addr) ==
    IF DOMAIN callee_save # {} THEN MaxValue(callee_save) + 4
    ELSE IF leaf THEN 0
    ELSE return_addr + 4

\* the if after the loop: local_vars_region_bottom
LocalVarsRegionBottom(leaf, callee_save, return_addr) ==
    IF leaf /\ DOMAIN callee_save # {} THEN MaxValue(callee_save) + 4
    ELSE IF leaf THEN 0
    ELSE return_addr + 4

\* the loop over the entry block is over: local_vars_region_bottom is derived
\* and find_stack_info returns
DeriveLocalVarsRegion ==
    /\ pc = "find_stack_info"
    /\ inst_iter = Len(StartInstructions)
    /\ local_vars_region_bottom' =
           LocalVarsRegionBottom(is_leaf, callee_save_reg_locations, return_addr_location)
    /\ pc' = "stack_info_found"
    /\ UNCHANGED <<flow_vars, lift_vars, parse_vars, allocated_stack_size, is_leaf, return_addr_location,
                   callee_save_reg_locations, inst_iter>>

\* in_local_var_region(location)
in_local_var_region(location) ==
    local_vars_region_bottom <= location /\ location < allocated_stack_size

-----------------------------------------------------------------------------
(* The specification of find_stack_info: it starts where do_flow_analysis   *)
(* has returned the FlowAnalysis of a function whose body is one block (a  *)
(* body without labels and branches), with the frame information as        *)
(* translate_to_ast initialises it.                                        *)

FrameInit ==
    /\ pc = "find_stack_info"
    /\ body \in EntryBlocks
    /\ body_iter = Len(body)
    /\ blocks = <<Block(0, None, body)>>
    /\ curr_index = 1
    /\ curr_label = None
    /\ curr_instructions = <<>>
    /\ nodes = <<ExitNode(Block(0, None, body))>>
    /\ stack = <<>>
    /\ call = <<>>
    /\ ret = <<>>
    /\ analysed = [i \in {0} |-> 0]
    /\ StackInit
    /\ NotLifting
    /\ NotParsing

FrameNext ==
    \/ SkipInstruction
    \/ MoveStackPointer
    \/ SaveReturnAddress
    \/ SaveCalleeSave
    \/ DeriveLocalVarsRegion

FrameSpec == FrameInit /\ [][FrameNext]_vars

-----------------------------------------------------------------------------
(* translate_to_ast: the handlers of translate_block_body                  *)
(*                                                                         *)
(* The expressions the lifter builds are records as well:                  *)
(*   [type |-> "BinaryOp", left, op, right]   [type |-> "UnaryOp", op, expr] *)
(*   [type |-> "Cast", to_type, expr]         [type |-> "Return"]           *)
(*   [type |-> "Store", size, source, dest, float]                         *)
(*   [type |-> "TypeHint", hint_type, value]  (TypeHint.type is hint_type, *)
(*                                 "type" being the field of the class)    *)
(* A handler can raise: what a Python expression evaluates to is a record  *)
(* [ok |-> TRUE, value |-> v], or [ok |-> FALSE, value |-> e] when the     *)
(* exception named e is raised while it is evaluated. The handlers are     *)
(* closures over reg, the register map of the current call.                *)

GlobalSymbol(symbol_name) == [type |-> "GlobalSymbol", symbol_name |-> symbol_name]

Macro(macro_name, argument) ==
    [type |-> "Macro", macro_name |-> macro_name, argument |-> argument]

BinOp(op, lhs, rhs) == [type |-> "BinOp", op |-> op, lhs |-> lhs, rhs |-> rhs]

Store(size, source, dest, float) ==
    [type |-> "Store", size |-> size, source |-> source, dest |-> dest, float |-> float]

TypeHint(hint_type, value) ==
    [type |-> "TypeHint", hint_type |-> hint_type, value |-> value]

BinaryOp(left, op, right) ==
    [type |-> "BinaryOp", left |-> left, op |-> op, right |-> right]

UnaryOp(op, expr) == [type |-> "UnaryOp", op |-> op, expr |-> expr]

Cast(to_type, expr) == [type |-> "Cast", to_type |-> to_type, expr |-> expr]

Return == [type |-> "Return"]

Ok(v) == [ok |-> TRUE, value |-> v]

Raise(e) == [ok |-> FALSE, value |-> e]

\* F applied to the value of x, unless evaluating x raised
Then(x, F(_)) == IF x.ok THEN F(x.value) ELSE x

\* a[i], for a Python list a and i >= 0
Item(a, i) == IF i < Len(a) THEN Ok(a[i + 1]) ELSE Raise("IndexError")

\* dict[key]
GetItem(dict, key) == IF key \in DOMAIN dict THEN Ok(dict[key]) ELSE Raise("KeyError")

\* reg[a[i]]
RegItem(a, i) == Then(Item(a, i), LAMBDA key : GetItem(reg, key))

\* BinaryOp(left=l, op=op, right=r): l is evaluated before r
BinaryOpOf(l, op, r) ==
    IF ~l.ok THEN l
    ELSE IF ~r.ok THEN r
    ELSE Ok(BinaryOp(l.value, op, r.value))

load_upper(args) ==
    IF Len(args) < 2 THEN Raise("IndexError")
    ELSE IF args[2].type = "BinOp"
    THEN IF args[2].op = ">>" /\ args[2].rhs = NumberLiteral(16)
         THEN Ok(args[2].lhs)
         ELSE Raise("AssertionError")
    ELSE IF args[2].type = "NumberLiteral"
    THEN Ok(BinaryOp(args[2], "<<", NumberLiteral(16)))
    ELSE Ok(args[2])

handle_ori(args) ==
    IF Len(args) < 2 THEN Raise("IndexError")
    ELSE IF args[2].type = "BinOp"
    THEN IF args[2].op = "&" /\ args[2].rhs = NumberLiteral(65535)
         THEN Ok(None)
         ELSE Raise("AssertionError")
    ELSE BinaryOpOf(RegItem(args, 0), "<", Item(args, 1))

handle_addi(args) ==
    IF Len(args) = 2 THEN Ok(args[2])
    ELSE IF Len(args) < 2 THEN Raise("IndexError")
    ELSE IF args[2].type # "Register" THEN Raise("AttributeError")
    ELSE IF args[2].register_name = "sp"
    THEN IF args[3].type = "NumberLiteral"
         THEN Ok(UnaryOp("&", AddressMode(args[3], Register("sp"))))
         ELSE Raise("AssertionError")
    ELSE BinaryOpOf(RegItem(args, 1), "+", Item(args, 2))

deref(a) ==
    IF a.type = "AddressMode"
    THEN IF a.rhs.type # "Register" THEN Raise("AssertionError")
         ELSE IF a.rhs.register_name = "sp" THEN Ok(a)
         ELSE Then(GetItem(reg, a.rhs), LAMBDA v : Ok(AddressMode(a.lhs, v)))
    ELSE IF a.type # "Register" THEN Raise("AssertionError")
    ELSE GetItem(reg, a)

\* deref(a[i], reg)
DerefItem(a, i) == Then(Item(a, i), deref)

-----------------------------------------------------------------------------
(* translate_block_body: the handler tables and the dispatch               *)

\* mnemonic -> <<size, float>> of the Store
cases_source_first_expression ==
    "sb" :> <<8, FALSE>> @@ "sh" :> <<16, FALSE>> @@ "sw" :> <<32, FALSE>>
    @@ "swc1" :> <<32, TRUE>> @@ "sdc1" :> <<64, TRUE>>

source_first_expression(mnemonic, a) ==
    LET source == RegItem(a, 0)
        dest == DerefItem(a, 1)
        c == cases_source_first_expression[mnemonic]
    IN  IF ~source.ok THEN source
        ELSE IF ~dest.ok THEN dest
        ELSE Ok(Store(c[1], source.value, dest.value, c[2]))

cases_source_first_register == {"mtc1"}

source_first_register(mnemonic, a) ==
    Then(RegItem(a, 0), LAMBDA v : Ok(Cast("f32", v)))

cases_branches == {"b", "beq", "bne", "beqz", "bnez", "blez", "bgtz", "bltz", "bgez"}

cases_float_branches == {"bc1t", "bc1f"}

cases_jumps == {"jal", "jr"}

jumps(mnemonic, a) == IF mnemonic = "jal" THEN Item(a, 0) ELSE Ok(Return)

cases_float_comp == {"c.eq.s", "c.le.s", "c.lt.s"}

cases_special == {"lui", "ori", "addi"}

special(mnemonic, a) ==
    IF mnemonic = "lui" THEN load_upper(a)
    ELSE IF mnemonic = "ori" THEN handle_ori(a)
    ELSE handle_addi(a)

\* cases_destination_first, by the shape of the handler:
\* BinaryOp(left=reg[a[1]], op=.., right=reg[a[2]])
RegisterRegisterOp ==
    "slt" :> "<" @@ "addu" :> "+" @@ "multu" :> "*" @@ "subu" :> "-"
    @@ "div.s" :> "/" @@ "and" :> "&" @@ "or" :> "^" @@ "xor" :> "^"

\* BinaryOp(left=reg[a[1]], op=.., right=a[2])
RegisterImmediateOp ==
    "slti" :> "<" @@ "andi" :> "&" @@ "xori" :> "^" @@ "sll" :> "<<" @@ "srl" :> ">>"

\* Cast(to_type=.., expr=reg[a[1]])
CastToType ==
    "cvt.d.s" :> "(f64)" @@ "cvt.s.d" :> "(f32)" @@ "cvt.w.d" :> "(s32)"
    @@ "trunc.w.s" :> "(s32)" @@ "trunc.w.d" :> "(s32)"

\* TypeHint(type=.., value=deref(a[1], reg))
LoadType ==
    "lb" :> "s8" @@ "lh" :> "s16" @@ "lw" :> "s32" @@ "lbu" :> "u8"
    @@ "lhu" :> "u16" @@ "lwu" :> "u32" @@ "lwc1" :> "f32" @@ "ldc1" :> "f64"

cases_destination_first ==
    DOMAIN RegisterRegisterOp \cup DOMAIN RegisterImmediateOp
    \cup DOMAIN CastToType \cup DOMAIN LoadType
    \cup {"div", "negu", "mfhi", "mflo", "move", "mfc1", "li"}

destination_first(mnemonic, a) ==
    IF mnemonic \in DOMAIN RegisterRegisterOp
    THEN BinaryOpOf(RegItem(a, 1), RegisterRegisterOp[mnemonic], RegItem(a, 2))
    ELSE IF mnemonic \in DOMAIN RegisterImmediateOp
    THEN BinaryOpOf(RegItem(a, 1), RegisterImmediateOp[mnemonic], Item(a, 2))
    ELSE IF mnemonic \in DOMAIN CastToType
    THEN Then(RegItem(a, 1), LAMBDA v : Ok(Cast(CastToType[mnemonic], v)))
    ELSE IF mnemonic \in DOMAIN LoadType
    THEN Then(DerefItem(a, 1), LAMBDA v : Ok(TypeHint(LoadType[mnemonic], v)))
    ELSE IF mnemonic = "div"
    THEN LET hi == BinaryOpOf(RegItem(a, 1), "/", RegItem(a, 2))
             lo == BinaryOpOf(RegItem(a, 1), "%", RegItem(a, 2))
         IN  IF ~hi.ok THEN hi ELSE Ok(<<hi.value, lo.value>>)
    ELSE IF mnemonic = "negu"
    THEN Then(RegItem(a, 1), LAMBDA v : Ok(UnaryOp("-", v)))
    ELSE IF mnemonic = "mfhi" THEN GetItem(reg, Register("hi"))
    ELSE IF mnemonic = "mflo" THEN GetItem(reg, Register("lo"))
    ELSE IF mnemonic = "li" THEN Item(a, 1)
    ELSE RegItem(a, 1)

cases_uniques ==
    DOMAIN cases_source_first_expression \cup cases_source_first_register
    \cup cases_branches \cup cases_float_branches \cup cases_jumps
    \cup cases_float_comp \cup cases_special \cup cases_destination_first

cases_repeats ==
    "addiu" :> "addi" @@ "divu" :> "div" @@ "add.s" :> "addu" @@ "mul.s" :> "multu"
    @@ "sub.s" :> "subu" @@ "add.d" :> "addu" @@ "div.d" :> "div.s"
    @@ "mul.d" :> "mulu" @@ "sub.d" :> "subu" @@ "cvt.d.w" :> "cvt.d.s"
    @@ "cvt.s.w" :> "cvt.s.d" @@ "cvt.w.s" :> "cvt.w.d" @@ "c.lt.d" :> "c.lt.s"
    @@ "c.eq.d" :> "c.eq.s" @@ "c.le.d" :> "c.le.s" @@ "sra" :> "srl"
    @@ "sltiu" :> "slti" @@ "sltu" :> "slt"

\* mnemonic = cases_repeats[mnemonic], for a mnemonic in cases_repeats
TrueMnemonic(mnemonic) ==
    IF mnemonic \in DOMAIN cases_repeats THEN cases_repeats[mnemonic] ELSE mnemonic

\* the preprocessing that removes the macros from instr.args
RemoveMacros(args) ==
    [k \in 1..Len(args) |->
        IF args[k].type = "Macro" THEN args[k].argument ELSE args[k]]

\* the argument that names the register 'mtc1' writes: args[0] instead of args[1]
SourceFirstDestination_First(args) == Item(args, 0)

\* instr.args[1] of the "reversed" instruction 'mtc1'
SourceFirstDestination(args) == Item(args, 1)

\* assert isinstance(dest, Register); reg[dest] = value, where dest and value
\* are what the two expressions evaluate to; the result is the reg and the
\* to_store after the statement
WriteRegister(dest, value) ==
    IF ~dest.ok THEN dest
    ELSE IF dest.value.type # "Register" THEN Raise("AssertionError")
    ELSE IF ~value.ok THEN value
    ELSE Ok([reg |-> SetItem(reg, dest.value, value.value), to_store |-> to_store])

\* one iteration of "for instr in block.instructions": the reg and the
\* to_store after it, or the exception it raises
TranslateInstruction(instr) ==
    LET mnemonic == TrueMnemonic(instr.mnemonic)
        args == RemoveMacros(instr.args)
        Unchanged == Ok([reg |-> reg, to_store |-> to_store])
    IN  IF mnemonic = "nop" THEN Unchanged
        ELSE IF mnemonic \in DOMAIN cases_source_first_expression
        THEN Then(source_first_expression(mnemonic, args),
                  LAMBDA s : Ok([reg |-> reg, to_store |-> Append(to_store, s)]))
        ELSE IF mnemonic \in cases_source_first_register
        THEN WriteRegister(SourceFirstDestination(args),
                           source_first_register(mnemonic, args))
        ELSE IF mnemonic \in cases_branches \cup cases_float_branches THEN Unchanged
        ELSE IF mnemonic \in cases_jumps
        THEN Then(jumps(mnemonic, args), LAMBDA result : Unchanged)
        ELSE IF mnemonic \in cases_float_comp THEN Unchanged
        ELSE IF mnemonic \in cases_special
        THEN WriteRegister(Item(args, 0), special(mnemonic, args))
        ELSE IF mnemonic \in cases_destination_first
        THEN WriteRegister(Item(args, 0), destination_first(mnemonic, args))
        ELSE Raise("AssertionError")

-----------------------------------------------------------------------------
(* translate_to_ast: the loop that lifts the blocks                        *)

\* for i, node in enumerate(flow_analysis.nodes): the loop without
\* "if i == 0: continue"
SkipsNode_None(i) == FALSE

\* if i == 0: continue
SkipsNode(i) == i = 0

\* one register map that is made before the loop and passed to every call
RegisterMapOfCall_Shared ==
    IF calls = <<>> THEN Register("zero") :> NumberLiteral(0) ELSE reg

\* {Register('zero'): NumberLiteral(0)}, evaluated for each call
RegisterMapOfCall == Register("zero") :> NumberLiteral(0)

\* "except KeyError" in the place of "except Exception"
ExceptException_KeyError(e) == e = "KeyError"

\* except Exception: the exceptions the handlers raise are all subclasses of
\* Exception
ExceptException(e) ==
    e \in {"KeyError", "IndexError", "AssertionError", "AttributeError"}

\* node.block of the translate_block_body call in progress
LiftedBlock == nodes[node_iter].block

\* one iteration of "for i, node in enumerate(flow_analysis.nodes)" up to
\* the call of translate_block_body
EnumerateNode ==
    /\ pc = "lift"
    /\ node_iter < Len(nodes)
    /\ node_iter' = node_iter + 1
    /\ IF SkipsNode(node_iter)
       THEN UNCHANGED <<pc, reg, to_store, instr_iter, calls>>
       ELSE /\ pc' = "translate_block_body"
            /\ reg' = RegisterMapOfCall
            /\ to_store' = <<>>
            /\ instr_iter' = 0
            /\ calls' = Append(calls, [block |-> nodes[node_iter + 1].block.index,
                                       reg |-> RegisterMapOfCall])
    /\ UNCHANGED <<caught, flow_vars, stack_vars, parse_vars>>

\* one iteration of "for instr in block.instructions"; an exception ends the
\* call and is caught by the loop of translate_to_ast
LiftInstruction ==
    /\ pc = "translate_block_body"
    /\ instr_iter < Len(LiftedBlock.instructions)
    /\ LET result == TranslateInstruction(LiftedBlock.instructions[instr_iter + 1])
       IN  IF result.ok
           THEN /\ reg' = result.value.reg
                /\ to_store' = result.value.to_store
                /\ instr_iter' = instr_iter + 1
                /\ UNCHANGED <<pc, caught>>
           ELSE /\ IF ExceptException(result.value)
                   THEN /\ pc' = "lift"
                        /\ caught' = Append(caught, [block |-> LiftedBlock.index,
                                                     instr |-> instr_iter,
                                                     exception |-> result.value])
                   ELSE /\ pc' = result.value
                        /\ UNCHANGED caught
                /\ UNCHANGED <<reg, to_store, instr_iter>>
    /\ UNCHANGED <<node_iter, calls, flow_vars, stack_vars, parse_vars>>

\* the end of translate_block_body: the two prints
ReturnTranslateBlockBody ==
    /\ pc = "translate_block_body"
    /\ instr_iter = Len(LiftedBlock.instructions)
    /\ pc' = "lift"
    /\ UNCHANGED <<flow_vars, stack_vars, lift_vars, parse_vars>>

\* the loop is exhausted: translate_to_ast returns
ReturnTranslateToAst ==
    /\ pc = "lift"
    /\ node_iter = Len(nodes)
    /\ pc' = "returned"
    /\ UNCHANGED <<flow_vars, stack_vars, lift_vars, parse_vars>>

-----------------------------------------------------------------------------
(* The specification of the lifting loop: it starts where find_stack_info  *)
(* has returned, for a function whose blocks after the entry block each    *)
(* begin at a label and hold instructions that do not split a block        *)
(* (is_branch_instruction is false for each of them). There are one or two *)
(* blocks after the entry block. In the functions that skip, the entry     *)
(* block ends with a branch over the block that follows it, which          *)
(* therefore has no Node.                                                  *)

\* most instructions after the entry block
MaxLift == 3

LiftInstructions ==
    {Instruction("nop", <<>>),
     Instruction("sw", <<Register("zero"),
                         AddressMode(NumberLiteral(16), Register("sp"))>>),
     Instruction("mtc1", <<Register("zero"), Register("f0")>>),
     Instruction("mfc1", <<Register("t1"), Register("f0")>>),
     Instruction("bnez", <<Register("zero"), JumpTarget("L1")>>),
     Instruction("bc1t", <<JumpTarget("L1")>>),
     Instruction("jr", <<Register("ra")>>),
     Instruction("c.eq.s", <<Register("f0"), Register("f2")>>),
     Instruction("addiu", <<Register("zero"), Register("sp"), NumberLiteral(16)>>),
     Instruction("mul.d", <<Register("f0"), Register("f2"), Register("f4")>>)}

\* the name of the label of the k-th block after the entry block
BlockLabelNames == <<"L1", "L2", "L3", "L4", "L5">>

\* the instructions after the entry block are insts, cut into blocks after
\* the positions in cuts: the number of the block that holds position p
BlockOfPosition(cuts, p) == 1 + Cardinality({c \in cuts : c < p})

PositionsOfBlock(insts, cuts, k) ==
    {p \in 1..Len(insts) : BlockOfPosition(cuts, p) = k}

InstructionsOfBlock(insts, cuts, k) ==
    LET ps == PositionsOfBlock(insts, cuts, k)
        first == CHOOSE p \in ps : \A q \in ps : p <= q
    IN  [j \in 1..Cardinality(ps) |-> insts[first + j - 1]]

\* the entry block: the prologue, and the branch over the next block
EntryInstructionsOf(skip) ==
    <<Instruction("addiu", <<Register("sp"), Register("sp"), NumberLiteral(-32)>>)>>
    \o (IF skip
        THEN <<Instruction("b", <<JumpTarget(BlockLabelNames[2])>>),
               Instruction("nop", <<>>)>>
        ELSE <<>>)

\* the blocks do_flow_analysis builds
BlocksOf(insts, cuts, skip) ==
    [i \in 1..(Cardinality(cuts) + 2) |->
        IF i = 1 THEN Block(0, None, EntryInstructionsOf(skip))
        ELSE Block(i - 1, Label(BlockLabelNames[i - 1]),
                   InstructionsOfBlock(insts, cuts, i - 1))]

\* function.body
RECURSIVE BodyFrom(_, _)
BodyFrom(bs, i) ==
    IF i > Len(bs) THEN <<>>
    ELSE (IF bs[i].label = None THEN <<>> ELSE <<bs[i].label>>)
         \o bs[i].instructions \o BodyFrom(bs, i + 1)

\* the nodes of the FlowAnalysis, sorted by block index
FlowAnalysisOf(bs, skip) ==
    LET NodeOfBlock(i) ==
            IF i = Len(bs) THEN ExitNode(bs[i])
            ELSE IF i = 1 /\ skip THEN BasicNode(bs[i], 2)
            ELSE BasicNode(bs[i], i)
        kept == IF skip THEN <<1>> \o [j \in 1..(Len(bs) - 2) |-> j + 2]
                ELSE [j \in 1..Len(bs) |-> j]
    IN  [j \in 1..Len(kept) |-> NodeOfBlock(kept[j])]

TranslateInit ==
    \E n \in 1..MaxLift :
    \E insts \in [1..n -> LiftInstructions] :
    \E cuts \in {{}} \cup {{c} : c \in 1..(n - 1)} :
    \E skip \in {s \in BOOLEAN : s => cuts # {}} :
        LET bs == BlocksOf(insts, cuts, skip) IN
        /\ pc = "lift"
        /\ body = BodyFrom(bs, 1)
        /\ body_iter = Len(body)
        /\ blocks = bs
        /\ curr_index = Len(bs)
        /\ curr_label = None
        /\ curr_instructions = <<>>
        /\ nodes = FlowAnalysisOf(bs, skip)
        /\ stack = <<>>
        /\ call = <<>>
        /\ ret = <<>>
        /\ analysed = [i \in 0..(Len(bs) - 1) |->
                          IF i = Len(bs) - 1 \/ (skip /\ i = 1) THEN 0 ELSE 1]
        /\ allocated_stack_size = 32
        /\ is_leaf = TRUE
        /\ local_vars_region_bottom = 0
        /\ return_addr_location = 0
        /\ callee_save_reg_locations = <<>>
        /\ inst_iter = Len(bs[1].instructions)
        /\ NotLifting
        /\ NotParsing

TranslateNext ==
    \/ EnumerateNode
    \/ LiftInstruction
    \/ ReturnTranslateBlockBody
    \/ ReturnTranslateToAst

TranslateSpec == TranslateInit /\ [][TranslateNext]_vars

-----------------------------------------------------------------------------
(* parse_arg and the __str__ of the Arguments                              *)
(*                                                                         *)
(* parse_arg works on list(arg): here a str is the sequence of its         *)
(* characters, each a string of length one, and so are the names parse_arg *)
(* puts into a Register, a GlobalSymbol, a JumpTarget or a Macro and the   *)
(* op of a BinOp. An int is an integer. A float is the record              *)
(* [float |-> literal] of the literal it was written as, and the           *)
(* NumberLiteral that holds one carries the field class, "float", as the   *)
(* object carries its class in Python.                                     *)

digits == {"0", "1", "2", "3", "4", "5", "6", "7", "8", "9"}

\* string.hexdigits
hexdigits == digits \cup {"a", "b", "c", "d", "e", "f", "A", "B", "C", "D", "E", "F"}

\* string.ascii_letters
ascii_letters ==
    {"a", "b", "c", "d", "e", "f", "g", "h", "i", "j", "k", "l", "m",
     "n", "o", "p", "q", "r", "s", "t", "u", "v", "w", "x", "y", "z",
     "A", "B", "C", "D", "E", "F", "G", "H", "I", "J", "K", "L", "M",
     "N", "O", "P", "Q", "R", "S", "T", "U", "V", "W", "X", "Y", "Z"}

valid_word == ascii_letters \cup digits \cup {"_"}

valid_number == {"-", "x"} \cup hexdigits

\* the characters str.isspace() is true of, among those of an operand string
isspace == {" ", "\t"}

\* the part of s from its character number i on
From(s, i) == SubSeq(s, i, Len(s))

\* F of the value of e, which is evaluated once
Let(e, F(_)) == CHOOSE r \in {F(v) : v \in {e}} : TRUE

\* parse_word: pops the characters of arg_elems while they are in valid;
\* returns the word and what is left of arg_elems
parse_word(arg_elems, valid) ==
    Let(arg_elems, LAMBDA elems :
        LET others == {i \in 1..Len(elems) : elems[i] \notin valid}
            n == IF others = {} THEN Len(elems)
                 ELSE (CHOOSE i \in others : \A j \in others : i <= j) - 1
        IN  [word |-> SubSeq(elems, 1, n), rest |-> From(elems, n + 1)])

AllIn(s, chars) == \A i \in 1..Len(s) : s[i] \in chars

\* the integer literals of Python that can be written with valid_number
IsDecimalLiteral(s) == s # <<>> /\ AllIn(s, digits) /\ (s[1] # "0" \/ AllIn(s, {"0"}))

IsHexLiteral(s) == Len(s) >= 3 /\ s[1] = "0" /\ s[2] = "x" /\ AllIn(From(s, 3), hexdigits)

IsBinLiteral(s) == Len(s) >= 3 /\ s[1] = "0" /\ s[2] \in {"b", "B"} /\ AllIn(From(s, 3), {"0", "1"})

IsIntLiteral(s) == IsDecimalLiteral(s) \/ IsHexLiteral(s) \/ IsBinLiteral(s)

\* the float literals that can be written with valid_number: digits, e or E,
\* and an exponent that may be negative
IsFloatLiteral(s) ==
    \E k \in 2..(Len(s) - 1) :
        /\ s[k] \in {"e", "E"}
        /\ AllIn(SubSeq(s, 1, k - 1), digits)
        /\ LET exponent == IF s[k + 1] = "-" THEN From(s, k + 2) ELSE From(s, k + 1)
           IN  exponent # <<>> /\ AllIn(exponent, digits)

HexDigitChars == <<"0", "1", "2", "3", "4", "5", "6", "7", "8", "9", "a", "b", "c", "d", "e", "f">>

DigitValue(c) ==
    LET lower == IF c \in {"A", "B", "C", "D", "E", "F"}
                 THEN ("A" :> "a" @@ "B" :> "b" @@ "C" :> "c" @@ "D" :> "d" @@ "E" :> "e" @@ "F" :> "f")[c]
                 ELSE c
    IN  (CHOOSE v \in 1..16 : HexDigitChars[v] = lower) - 1

\* the value of the first n digits of s
RECURSIVE ValueOfDigits(_, _, _)
ValueOfDigits(s, n, base) ==
    IF n = 0 THEN 0
    ELSE ValueOfDigits(s, n - 1, base) * base + DigitValue(s[n])

ValueInBase(s, base) == ValueOfDigits(s, Len(s), base)

IntLiteralValue(s) ==
    IF IsDecimalLiteral(s) THEN ValueInBase(s, 10)
    ELSE IF IsHexLiteral(s) THEN ValueInBase(From(s, 3), 16)
    ELSE ValueInBase(From(s, 3), 2)

\* the length of the token of Python that s, which does not begin with "-",
\* begins with: a name, an integer literal or a float literal; 0 when Python's
\* tokenizer rejects it
TokenLength(s) ==
    Let(Len(parse_word(s, valid_number \ {"-"}).word), LAMBDA run :
    LET word == SubSeq(s, 1, run)
        exponent == parse_word(From(s, run + 2), valid_number \ {"-"}).word
    IN  IF s[1] \notin digits THEN (IF word = <<"d", "e", "f">> THEN 0 ELSE run)
        ELSE IF IsIntLiteral(word) \/ IsFloatLiteral(word) THEN run
        ELSE IF /\ run >= 2
                /\ word[run] \in {"e", "E"}
                /\ AllIn(SubSeq(word, 1, run - 1), digits)
                /\ Len(s) > run
                /\ exponent # <<>>
                /\ AllIn(exponent, digits)
             THEN run + 1 + Len(exponent)
        ELSE 0)

\* s is an expression of Python: operands with "-" between and before them
RECURSIVE IsExpression(_)
IsExpression(s) ==
    \E operand \in {parse_word(s, {"-"}).rest} :
        /\ operand # <<>>
        /\ \E n \in {TokenLength(operand)} :
               /\ n > 0
               /\ (n = Len(operand) \/ IsExpression(From(operand, n + 2)))

\* a float, written as literal
float(literal) == [float |-> literal]

\* ast.literal_eval of a word of valid_number characters: an int or a float,
\* SyntaxError for what is not an expression and ValueError for an
\* expression that is not a literal
literal_eval(number_str) ==
    Let(number_str, LAMBDA word :
    LET negative == word # <<>> /\ word[1] = "-"
    IN  Let(IF negative THEN Tail(word) ELSE word, LAMBDA operand :
        IF IsIntLiteral(operand)
        THEN [ok |-> TRUE, class |-> "int",
              value |-> IF negative THEN 0 - IntLiteralValue(operand) ELSE IntLiteralValue(operand)]
        ELSE IF IsFloatLiteral(operand)
        THEN [ok |-> TRUE, class |-> "float", value |-> float(word)]
        ELSE IF IsExpression(word) THEN Raise("ValueError")
        ELSE Raise("SyntaxError")))

\* NumberLiteral(n) for the number n that literal_eval returned
NumberLiteralOf(n) ==
    IF n.class = "float"
    THEN [type |-> "NumberLiteral", value |-> n.value, class |-> "float"]
    ELSE NumberLiteral(n.value)

\* parse_number, with what is left of arg_elems
parse_number(elems) ==
    Let(parse_word(elems, valid_number), LAMBDA number_str :
        Let(literal_eval(number_str.word), LAMBDA n :
            IF n.ok THEN [ok |-> TRUE, value |-> NumberLiteralOf(n), rest |-> number_str.rest]
            ELSE n))

\* expect(n) of parse_arg_elems: pops one character, which has to be in n
expect(elems, n) ==
    IF elems = <<>> THEN Raise("IndexError")
    ELSE IF Head(elems) \notin n THEN Raise("SystemExit")
    ELSE [ok |-> TRUE, value |-> Head(elems), rest |-> Tail(elems)]

\* one pass of the while loop of parse_arg_elems, arg_elems not being empty
RECURSIVE parse_arg_elems_loop(_, _)
RECURSIVE parse_arg_elems_pass(_, _)
parse_arg_elems_pass(value, arg_elems) ==
    LET tok == Head(arg_elems) IN
    IF tok \in isspace THEN parse_arg_elems_loop(value, Tail(arg_elems))
    ELSE IF tok = "$" THEN
        IF value # None THEN Raise("AssertionError")
        ELSE Let(parse_word(Tail(arg_elems), valid_word), LAMBDA word :
                 parse_arg_elems_loop(Register(word.word), word.rest))
    ELSE IF tok = "." THEN
        IF value # None THEN Raise("AssertionError")
        ELSE Let(parse_word(Tail(arg_elems), valid_word), LAMBDA word :
                 parse_arg_elems_loop(JumpTarget(word.word), word.rest))
    ELSE IF tok = "%" THEN
        IF value # None THEN Raise("AssertionError")
        ELSE Let(parse_word(Tail(arg_elems), valid_word), LAMBDA macro_name :
             IF macro_name.word \notin {<<"h", "i">>, <<"l", "o">>} THEN Raise("AssertionError")
             ELSE Let(expect(macro_name.rest, {"("}), LAMBDA open :
                  IF ~open.ok THEN open
                  ELSE Let(parse_arg_elems_loop(None, open.rest), LAMBDA m :
                       IF ~m.ok THEN m
                       ELSE IF m.value = None THEN Raise("AssertionError")
                       ELSE Let(expect(m.rest, {")"}), LAMBDA close :
                            IF ~close.ok THEN close
                            ELSE parse_arg_elems_loop(Macro(macro_name.word, m.value),
                                                      close.rest)))))
    ELSE IF tok = ")" THEN [ok |-> TRUE, value |-> value, rest |-> arg_elems]
    ELSE IF tok \in {"-"} \cup digits THEN
        IF value # None THEN Raise("AssertionError")
        ELSE Let(parse_number(arg_elems), LAMBDA n :
                 IF ~n.ok THEN n ELSE parse_arg_elems_loop(n.value, n.rest))
    ELSE IF tok = "(" THEN
        IF value.type \notin {"None", "NumberLiteral", "Macro"} THEN Raise("AssertionError")
        ELSE Let(parse_arg_elems_loop(None, Tail(arg_elems)), LAMBDA rhs :
                 IF ~rhs.ok THEN rhs
                 ELSE IF rhs.value = None THEN Raise("AssertionError")
                 ELSE Let(expect(rhs.rest, {")"}), LAMBDA close :
                      IF ~close.ok THEN close
                      ELSE parse_arg_elems_loop(AddressMode(value, rhs.value), close.rest)))
    ELSE IF tok \in valid_word THEN
        IF value # None THEN Raise("AssertionError")
        ELSE Let(parse_word(arg_elems, valid_word), LAMBDA word :
                 parse_arg_elems_loop(GlobalSymbol(word.word), word.rest))
    ELSE IF tok \in {">", "+", "&"} THEN
        IF value.type \notin {"NumberLiteral", "GlobalSymbol"} THEN Raise("AssertionError")
        ELSE Let(IF tok = ">" THEN expect(Tail(arg_elems), {">"})
                 ELSE expect(arg_elems, {"&", "+"}), LAMBDA second :
                 IF ~second.ok THEN second
                 ELSE Let(parse_arg_elems_loop(None, second.rest), LAMBDA rhs :
                      IF ~rhs.ok THEN rhs
                      ELSE IF rhs.value.type # "NumberLiteral" THEN Raise("AssertionError")
                      ELSE [ok |-> TRUE,
                            value |-> BinOp(IF tok = ">" THEN <<">", ">">> ELSE <<tok>>,
                                            value, rhs.value),
                            rest |-> rhs.rest]))
    ELSE Raise("SystemExit")

\* parse_arg_elems from the top of its while loop, with the value it has
\* built so far: the value it returns and what it leaves in arg_elems, or
\* the exception it raises
parse_arg_elems_loop(value, arg_elems) ==
    Let(<<value, arg_elems>>, LAMBDA at :
        IF at[2] = <<>> THEN [ok |-> TRUE, value |-> at[1], rest |-> at[2]]
        ELSE parse_arg_elems_pass(at[1], at[2]))

parse_arg_elems(arg_elems) == parse_arg_elems_loop(None, arg_elems)

\* parse_arg: the value parse_arg_elems returns for list(arg)
parse_arg(arg) ==
    Let(parse_arg_elems(arg), LAMBDA value :
        IF value.ok THEN Ok(value.value) ELSE value)

\* hex() of an int
RECURSIVE HexDigitsOf(_)
HexDigitsOf(n) ==
    IF n < 16 THEN <<HexDigitChars[n + 1]>>
    ELSE HexDigitsOf(n \div 16) \o <<HexDigitChars[(n % 16) + 1]>>

hex(n) ==
    IF n < 0 THEN <<"-", "0", "x">> \o HexDigitsOf(0 - n)
    ELSE <<"0", "x">> \o HexDigitsOf(n)

\* str(a), from the __str__ of the class of a: hex() raises TypeError for a
\* float
RECURSIVE str(_)
str(a) ==
    IF a.type = "Register" THEN Ok(<<"$">> \o a.register_name)
    ELSE IF a.type = "GlobalSymbol" THEN Ok(a.symbol_name)
    ELSE IF a.type = "JumpTarget" THEN Ok(<<".">> \o a.target)
    ELSE IF a.type = "NumberLiteral" THEN
        IF "class" \in DOMAIN a THEN Raise("TypeError") ELSE Ok(hex(a.value))
    ELSE IF a.type = "Macro" THEN
        Then(str(a.argument),
             LAMBDA argument : Ok(<<"%">> \o a.macro_name \o <<"(">> \o argument \o <<")">>))
    ELSE IF a.type = "AddressMode" THEN
        IF a.lhs # None
        THEN Then(str(a.lhs), LAMBDA lhs :
                 Then(str(a.rhs), LAMBDA rhs : Ok(lhs \o <<"(">> \o rhs \o <<")">>)))
        ELSE Then(str(a.rhs), LAMBDA rhs : Ok(<<"(">> \o rhs \o <<")">>))
    ELSE IF a.type = "BinOp" THEN
        Then(str(a.lhs), LAMBDA lhs :
            Then(str(a.rhs), LAMBDA rhs : Ok(lhs \o <<" ">> \o a.op \o <<" ">> \o rhs)))
    ELSE Ok(<<"N", "o", "n", "e">>)

-----------------------------------------------------------------------------
(* The specification of parse_arg and str: parse_arg is applied to an      *)
(* operand string, str to the Argument it returns and parse_arg to that    *)
(* string. The operand strings are the strings of the Arguments nested up  *)
(* to MaxNest deep and the words of up to MaxWord characters, of the       *)
(* characters of numbers and of the characters of operands.                *)

\* deepest nesting of Macro and AddressMode in the Arguments explored
MaxNest == 2
\* longest word explored
MaxWord == 4

ArgumentNumbers == {NumberLiteral(0 - 32), NumberLiteral(0), NumberLiteral(16)}

ArgumentSymbols == {GlobalSymbol(<<"D", "_", "1">>)}

ArgumentAtoms ==
    {Register(<<>>), Register(<<"s", "p">>), Register(<<"a", "0">>), JumpTarget(<<"L", "1">>)}
    \cup ArgumentSymbols \cup ArgumentNumbers

\* what parse_arg_elems lets the lhs of an AddressMode be
ArgumentOffsets ==
    {None, Macro(<<"l", "o">>, GlobalSymbol(<<"D", "_", "1">>))} \cup ArgumentNumbers

RECURSIVE Arguments(_)
Arguments(nest) ==
    IF nest = 0 THEN ArgumentAtoms
    ELSE LET inner == Arguments(nest - 1) IN
         inner
         \cup {Macro(name, a) : name \in {<<"h", "i">>, <<"l", "o">>}, a \in inner}
         \cup {AddressMode(lhs, a) : lhs \in ArgumentOffsets, a \in inner}
         \cup {BinOp(op, lhs, rhs) : op \in {<<"+">>, <<"&">>, <<">", ">">>},
                                     lhs \in ArgumentSymbols \cup ArgumentNumbers,
                                     rhs \in ArgumentNumbers}

NumberChars == {"-", "0", "1", "x", "e", "b"}

OperandChars == {"$", "(", ")", "+", ">", "1", "a"}

Words(chars) == UNION {[1..n -> chars] : n \in 1..MaxWord}

OperandStrings ==
    {str(a).value : a \in Arguments(MaxNest)} \cup Words(NumberChars) \cup Words(OperandChars)

ParseArg ==
    /\ pc = "parse_arg"
    /\ LET value == parse_arg(arg_str) IN
       IF value.ok
       THEN /\ parsed' = value.value
            /\ pc' = IF value.value = None THEN "None" ELSE "str"
       ELSE /\ parsed' = parsed
            /\ pc' = value.value
    /\ UNCHANGED <<arg_str, printed, reparsed, flow_vars, stack_vars, lift_vars>>

StrOfArgument ==
    /\ pc = "str"
    /\ LET s == str(parsed) IN
       IF s.ok
       THEN /\ printed' = s.value
            /\ pc' = "parse_str"
       ELSE /\ printed' = printed
            /\ pc' = s.value
    /\ UNCHANGED <<arg_str, parsed, reparsed, flow_vars, stack_vars, lift_vars>>

ParseStr ==
    /\ pc = "parse_str"
    /\ LET value == parse_arg(printed) IN
       IF value.ok
       THEN /\ reparsed' = value.value
            /\ pc' = "parsed_str"
       ELSE /\ reparsed' = reparsed
            /\ pc' = value.value
    /\ UNCHANGED <<arg_str, parsed, printed, flow_vars, stack_vars, lift_vars>>

ParseInit ==
    /\ pc = "parse_arg"
    /\ body = <<>>
    /\ body_iter = 0
    /\ blocks = <<>>
    /\ curr_index = 0
    /\ curr_label = None
    /\ curr_instructions = <<>>
    /\ nodes = <<>>
    /\ stack = <<>>
    /\ call = <<>>
    /\ ret = <<>>
    /\ analysed = <<>>
    /\ StackInit
    /\ NotLifting
    /\ arg_str \in OperandStrings
    /\ parsed = None
    /\ printed = <<>>
    /\ reparsed = None

ParseNext ==
    \/ ParseArg
    \/ StrOfArgument
    \/ ParseStr

ParseSpec == ParseInit /\ [][ParseNext]_vars

-----------------------------------------------------------------------------
(* Properties of do_flow_analysis *)

Range(seq) == {seq[i] : i \in 1..Len(seq)}

\* do_flow_analysis has returned FlowAnalysis(nodes)
Returned == pc = "done"

\* do_flow_analysis has returned or has ended with an exception
Ended == pc \notin {"build", "edges"}

\* the index of the last block
LastIndex == Len(blocks) - 1

\* the branch instructions among a block's elements
BranchPositions(block) ==
    {i \in 1..Len(block.instructions) :
        /\ block.instructions[i].kind = "Instruction"
        /\ block.instructions[i].mnemonic \in BranchMnemonics}

\* the indices of the blocks whose label is named as the branch's last argument
TargetsOf(branch) ==
    {b.index : b \in {x \in Range(blocks) :
        /\ x.label # None
        /\ branch.args # <<>>
        /\ branch.args[Len(branch.args)].type = "JumpTarget"
        /\ x.label.name = branch.args[Len(branch.args)].target}}

\* C1: the block at list position i has index i: the indices of the blocks are
\* 0..N-1, without a gap and without a repetition, at every point of the build
\* and after it
C1_DenseIndices ==
    \A i \in 1..Len(blocks) : blocks[i].index = i - 1

\* C1 witness: three blocks were built from a body with a label, a branch and
\* a plain instruction
C1_Witness ==
    /\ pc = "edges"
    /\ Len(blocks) >= 3
    /\ \E b \in Range(blocks) : b.label # None
    /\ \E b \in Range(blocks) : BranchPositions(b) # {}
    /\ \E b \in Range(blocks) : BranchPositions(b) = {}

\* C2: in every block, every branch instruction is followed by exactly one more
\* element, and that element is an Instruction and not a Label
C2_BranchThenDelaySlot ==
    \A b \in Range(blocks) : \A i \in BranchPositions(b) :
        /\ Len(b.instructions) = i + 1
        /\ b.instructions[i + 1].kind = "Instruction"

\* C3 as claimed: the returned FlowAnalysis has as many nodes as the function
\* has blocks, and every block index is the block index of some node
C3_NodePerBlock ==
    Returned =>
        /\ Len(nodes) = Len(blocks)
        /\ \A i \in 0..LastIndex : \E n \in Range(nodes) : n.block.index = i

\* the blocks an edge leads to from a block: none from the last block, the next
\* block from a block without a branch, the branch target from a block with one
\* "b", the branch target and the next block from a block with one other branch
Successors(block) ==
    IF block.index = LastIndex THEN {}
    ELSE LET bp == BranchPositions(block) IN
        IF bp = {} THEN {block.index + 1}
        ELSE IF Cardinality(bp) = 1
        THEN LET branch == block.instructions[CHOOSE i \in bp : TRUE] IN
            IF branch.mnemonic = "b" THEN TargetsOf(branch)
            ELSE TargetsOf(branch) \cup {block.index + 1}
        ELSE {}

RECURSIVE ReachFrom(_)
ReachFrom(seen) ==
    LET more == seen \cup UNION {Successors(blocks[i + 1]) : i \in seen} IN
    IF more = seen THEN seen ELSE ReachFrom(more)

\* the blocks that edges reach from the entry block
Reachable == ReachFrom({0})

\* C3 amended: the returned FlowAnalysis has exactly one node for the last block
\* and for each block that edges reach from the entry block, no node for any
\* other block, and the nodes are in increasing order of block index
C3_NodePerReachableBlock ==
    Returned =>
        /\ {n.block.index : n \in Range(nodes)} = Reachable \cup {LastIndex}
        /\ \A i, j \in 1..Len(nodes) : i < j => nodes[i].block.index < nodes[j].block.index

\* C3 witness: a FlowAnalysis is returned for a function with a block that no
\* edge from the entry block reaches
C3_Witness ==
    /\ Returned
    /\ \E i \in 0..LastIndex : i \notin Reachable \cup {LastIndex}
    /\ Len(nodes) >= 2

\* C4: in the returned FlowAnalysis every node's block is a block of the
\* function, exactly one node is an ExitNode, and it is the node of the block
\* with the highest index
C4_SoleExitNode ==
    Returned =>
        /\ \A n \in Range(nodes) : n.block \in Range(blocks)
        /\ Cardinality({i \in 1..Len(nodes) : nodes[i].type = "ExitNode"}) = 1
        /\ \A n \in Range(nodes) : n.type = "ExitNode" <=> n.block.index = LastIndex

\* C4 witness: a FlowAnalysis of at least three nodes is returned, one of them
\* for a block that ends in a branch and is not the last
C4_Witness ==
    /\ Returned
    /\ Len(nodes) >= 3
    /\ \E n \in Range(nodes) : n.block.index # LastIndex /\ BranchPositions(n.block) # {}

\* every branch of every block names the label of some block
AllTargetsResolve ==
    \A b \in Range(blocks) : \A i \in BranchPositions(b) :
        TargetsOf(b.instructions[i]) # {}

\* C5: for a function whose branch targets all resolve, the recursion ends
\* (Python's recursion limit is not met) and no block is analysed more than once
C5_TerminatesWithoutReanalysis ==
    (pc # "build" /\ AllTargetsResolve) =>
        /\ pc # "RecursionError"
        /\ \A i \in DOMAIN analysed : analysed[i] <= 1

\* every branch of the body is followed by an instruction that is no branch
EveryBranchHasDelaySlot ==
    \A j \in 1..Len(body) :
        (body[j].kind = "Instruction" /\ body[j].mnemonic \in BranchMnemonics
         /\ (j = 1 \/ body[j - 1].kind = "Label"
                   \/ body[j - 1].mnemonic \notin BranchMnemonics)) =>
            /\ j < Len(body)
            /\ body[j + 1].kind = "Instruction"
            /\ body[j + 1].mnemonic \notin BranchMnemonics

\* the body holds the label L1 and, later, "b .L1" with its delay slot, and
\* goes on with an instruction after the delay slot
HasLoopL1 ==
    \E i, j, k \in 1..Len(body) :
        /\ i < j /\ j + 1 < k
        /\ body[i] = Label("L1")
        /\ body[j] = Instruction("b", <<JumpTarget("L1")>>)
        /\ body[k].kind = "Instruction"

\* the BasicNodes whose exit_edge leads to a block of lower index
BackwardBasicNodes ==
    {i \in 1..Len(nodes) :
        nodes[i].type = "BasicNode" /\ nodes[i].exit_edge < nodes[i].block.index}

\* C6: for a function with ".L1:" and later "b .L1" (every branch of it with a
\* delay slot and a target that resolves, the "b .L1" not in the last block),
\* do_flow_analysis returns a FlowAnalysis with exactly one BasicNode whose
\* exit_edge is backward, and is_loop() is true of it
C6_LoopDetected ==
    (HasLoopL1 /\ EveryBranchHasDelaySlot /\ Ended /\ AllTargetsResolve) =>
        /\ Returned
        /\ Cardinality(BackwardBasicNodes) = 1
        /\ \A i \in BackwardBasicNodes : is_loop(nodes[i])

\* C7: every node of a block other than the last is a BasicNode to the next
\* block when the block has no branch, a BasicNode to the labelled target when
\* it has one "b", and a ConditionalNode to the labelled target with a
\* fallthrough to the next block, which is no loop edge, when it has one other
\* branch; the node each edge names is in the list once the analysis returns
C7_NodeShape ==
    \A n \in Range(nodes) : n.block.index # LastIndex =>
        LET bp == BranchPositions(n.block) IN
        /\ bp = {} =>
            /\ n.type = "BasicNode"
            /\ n.exit_edge = n.block.index + 1
        /\ Cardinality(bp) = 1 =>
            LET branch == n.block.instructions[CHOOSE i \in bp : TRUE] IN
            IF branch.mnemonic = "b"
            THEN /\ n.type = "BasicNode"
                 /\ n.exit_edge \in TargetsOf(branch)
            ELSE /\ n.type = "ConditionalNode"
                 /\ n.conditional_edge \in TargetsOf(branch)
                 /\ n.fallthrough_edge = n.block.index + 1
                 /\ ~is_loop_edge(n, n.fallthrough_edge)
        /\ Cardinality(bp) <= 1
        /\ Returned =>
            \A e \in (IF n.type = "BasicNode" THEN {n.exit_edge}
                      ELSE {n.conditional_edge, n.fallthrough_edge}) :
                \E m \in Range(nodes) : m.block.index = e

\* C7 witness: the returned FlowAnalysis has a ConditionalNode, and a BasicNode
\* of a block without a branch
C7_Witness ==
    /\ Returned
    /\ \E n \in Range(nodes) : n.type = "ConditionalNode"
    /\ \E n \in Range(nodes) : n.type = "BasicNode" /\ BranchPositions(n.block) = {}

-----------------------------------------------------------------------------
(* Properties of find_stack_info *)

\* find_stack_info has returned
StackInfoFound == pc = "stack_info_found"

Abs(n) == IF n < 0 THEN -n ELSE n

\* the positions in the entry block of the "addiu" with destination sp
StackMoves ==
    {i \in 1..Len(body) :
        body[i].mnemonic = "addiu" /\ body[i].args[1] = Register("sp")}

FirstStackMove == CHOOSE i \in StackMoves : \A j \in StackMoves : i <= j

\* C8: after find_stack_info, allocated_stack_size is the absolute value of the
\* (negative) immediate of the first "addiu" with destination sp of the entry
\* block, whatever "addiu sp" follow it, and it is not negative
C8_FirstStackMoveDecides ==
    (StackInfoFound /\ StackMoves # {} /\ body[FirstStackMove].args[3].value < 0) =>
        /\ allocated_stack_size = Abs(body[FirstStackMove].args[3].value)
        /\ allocated_stack_size >= 0

\* the positions in the entry block of the "sw" of register r to an address on
\* sp
SavesOf(r) ==
    {i \in 1..Len(body) :
        /\ body[i].mnemonic = "sw"
        /\ body[i].args[1] = Register(r)
        /\ body[i].args[2].rhs = Register("sp")}

\* the offset of the last "sw" of register r to an address on sp
LastSavedAt(r) ==
    LET i == CHOOSE x \in SavesOf(r) : \A y \in SavesOf(r) : y <= x
        lhs == body[i].args[2].lhs
    IN IF lhs = None THEN 0 ELSE lhs.value

SavedCalleeSaves == {r \in CalleeSaveNames : SavesOf(r) # {}}

\* "addiu sp,sp,-0x20; sw ra,0x1c(sp); sw s0,0x18(sp)"
Prologue ==
    << Instruction("addiu", <<Register("sp"), Register("sp"), NumberLiteral(-32)>>),
       Instruction("sw", <<Register("ra"), AddressMode(NumberLiteral(28), Register("sp"))>>),
       Instruction("sw", <<Register("s0"), AddressMode(NumberLiteral(24), Register("sp"))>> ) >>

\* C9: after find_stack_info, local_vars_region_bottom is return_addr_location
\* + 4 (the offset of the "sw ra" + 4) when the entry block has a "sw ra" on
\* sp, else the greatest recorded callee-save offset + 4 when it has a "sw" of
\* one of s0..s7 on sp, else 0; the prologue "addiu sp,sp,-0x20; sw
\* ra,0x1c(sp); sw s0,0x18(sp)" yields 32, non-leaf, 28, {s0: 24}, 32
C9_LocalVarsRegionBottom ==
    StackInfoFound =>
        /\ IF SavesOf("ra") # {}
           THEN /\ ~is_leaf
                /\ return_addr_location = LastSavedAt("ra")
                /\ local_vars_region_bottom = return_addr_location + 4
           ELSE IF SavedCalleeSaves # {}
           THEN /\ is_leaf
                /\ \E r \in SavedCalleeSaves :
                    local_vars_region_bottom = LastSavedAt(r) + 4
                /\ \A r \in SavedCalleeSaves :
                    LastSavedAt(r) + 4 <= local_vars_region_bottom
           ELSE /\ is_leaf
                /\ local_vars_region_bottom = 0
        /\ body = Prologue =>
            /\ allocated_stack_size = 32
            /\ is_leaf = FALSE
            /\ return_addr_location = 28
            /\ callee_save_reg_locations = [r \in {"s0"} |-> 24]
            /\ local_vars_region_bottom = 32

\* C9 witness: find_stack_info has returned on the prologue of the claim
C9_Witness == StackInfoFound /\ body = Prologue

\* C10: after find_stack_info has accepted the entry block,
\* local_vars_region_bottom <= allocated_stack_size, and
\* in_local_var_region(local_vars_region_bottom) is true exactly when the two
\* differ
C10_RegionWithinFrame ==
    StackInfoFound =>
        /\ local_vars_region_bottom <= allocated_stack_size
        /\ in_local_var_region(local_vars_region_bottom)
               <=> local_vars_region_bottom # allocated_stack_size

-----------------------------------------------------------------------------
(* Properties of the lifting loop *)

\* the block indices of the nodes the loop lifts: all the nodes but the first
LiftedNodeBlocks == [k \in 1..(Len(nodes) - 1) |-> nodes[k + 1].block.index]

\* the block indices of the translate_block_body calls made so far
CalledBlocks == [k \in 1..Len(calls) |-> calls[k].block]

\* the register map as translate_to_ast writes it: zero -> NumberLiteral(0) only
ZeroOnly == Register("zero") :> NumberLiteral(0)

\* no exception has left translate_to_ast
NoException == pc \in {"lift", "translate_block_body", "returned"}

\* the instruction is not 'nop' and its mnemonic, after the aliases, has no
\* handler in any table
HasNoHandler(instr) ==
    TrueMnemonic(instr.mnemonic) \notin cases_uniques \cup {"nop"}

\* the instruction at which the caught exception c was raised
FailedInstruction(c) == blocks[c.block + 1].instructions[c.instr + 1]

\* C11: in the register map passed to translate_block_body, the entry of
\* Register("zero") is NumberLiteral(0) after every instruction processed
C11_ZeroStaysZero ==
    pc = "translate_block_body" =>
        /\ Register("zero") \in DOMAIN reg
        /\ reg[Register("zero")] = NumberLiteral(0)

\* C12: an exception raised while a block is lifted is caught at the block's
\* boundary: no exception leaves translate_to_ast, when it returns every node
\* after the failed block's has been attempted, in index order, and every call
\* made after a failure starts from the map zero -> NumberLiteral(0), whatever the
\* failed call had written into its own map
C12_ExceptionCaughtPerBlock ==
    /\ NoException
    /\ \A k \in 1..Len(caught) :
        /\ \E j \in 1..Len(calls) : calls[j].block = caught[k].block
        /\ \A j \in 1..Len(calls) :
               calls[j].block > caught[k].block => calls[j].reg = ZeroOnly
        /\ pc = "returned" =>
               \A n \in 2..Len(nodes) :
                   nodes[n].block.index > caught[k].block =>
                       \E j \in 1..Len(calls) : calls[j].block = nodes[n].block.index
        /\ (pc = "translate_block_body" /\ instr_iter = 0
            /\ LiftedBlock.index > caught[k].block) => reg = ZeroOnly

\* C12 witness: the first lifted block wrote reg[f0] with 'mtc1' and then
\* raised; the call for a later block has just started
C12_Witness ==
    /\ pc = "translate_block_body"
    /\ instr_iter = 0
    /\ caught # <<>>
    /\ caught[1].instr >= 1
    /\ blocks[caught[1].block + 1].instructions[1].mnemonic = "mtc1"
    /\ LiftedBlock.index > caught[1].block

\* C13 as claimed: an instruction without a handler is fatal, no block after
\* its block is lifted
C13_UnknownMnemonicIsFatal ==
    \A k \in 1..Len(caught) :
        HasNoHandler(FailedInstruction(caught[k])) =>
            \A j \in 1..Len(calls) : calls[j].block <= caught[k].block

\* C13 amended: an instruction without a handler ends the lifting of its own
\* block with an AssertionError (no instruction of the block is processed
\* after it), the exception is caught and does not leave translate_to_ast,
\* and when translate_to_ast returns the nodes after that block have been
\* lifted as well
C13_UnknownMnemonicEndsItsBlock ==
    /\ NoException
    /\ pc = "translate_block_body" =>
           \A i \in 1..instr_iter : ~HasNoHandler(LiftedBlock.instructions[i])
    /\ \A k \in 1..Len(caught) :
           HasNoHandler(FailedInstruction(caught[k])) =>
               /\ caught[k].exception = "AssertionError"
               /\ pc = "returned" => CalledBlocks = LiftedNodeBlocks

\* C13 witness: translate_to_ast has returned after an instruction without a
\* handler ('mul.d', an alias of the unhandled 'mulu') was met in one block
\* and a later block was lifted
C13_Witness ==
    /\ pc = "returned"
    /\ \E k \in 1..Len(caught) :
        /\ HasNoHandler(FailedInstruction(caught[k]))
        /\ \E j \in 1..Len(calls) : calls[j].block > caught[k].block

\* reg' differs from reg in the entry of key at most
WritesOnly(key) ==
    /\ DOMAIN reg' = DOMAIN reg \cup {key}
    /\ \A r \in DOMAIN reg \ {key} : reg'[r] = reg[r]

\* C15: an instruction that translate_block_body processes changes the
\* register map and the store list as its group says: a store leaves the map
\* and appends one Store; nop, branches, float branches, float compares and
\* jumps leave both; mtc1 writes only reg[args[1]]; a special or
\* destination-first instruction writes only reg[args[0]]; the latter two
\* leave the store list
C15_FrameOfInstruction ==
    [][(pc = "translate_block_body" /\ instr_iter' = instr_iter + 1) =>
        LET instr == LiftedBlock.instructions[instr_iter + 1]
            mnemonic == TrueMnemonic(instr.mnemonic)
            args == RemoveMacros(instr.args)
        IN  /\ mnemonic \in {"sb", "sh", "sw", "swc1", "sdc1"} =>
                /\ reg' = reg
                /\ Len(to_store') = Len(to_store) + 1
                /\ SubSeq(to_store', 1, Len(to_store)) = to_store
                /\ to_store'[Len(to_store')].type = "Store"
            /\ mnemonic \in {"nop", "jal", "jr"} \cup cases_branches
                            \cup cases_float_branches \cup cases_float_comp =>
                /\ reg' = reg
                /\ to_store' = to_store
            /\ mnemonic = "mtc1" =>
                /\ WritesOnly(args[2])
                /\ to_store' = to_store
            /\ mnemonic \in {"lui", "ori", "addi"} \cup cases_destination_first =>
                /\ WritesOnly(args[1])
                /\ to_store' = to_store
            /\ mnemonic \in cases_uniques \cup {"nop"}
      ]_vars

\* C15 witness: in one block 'mtc1' has written reg[f0], 'mfc1' has written
\* reg[t1] and 'sw' has appended a Store
C15_Witness ==
    /\ pc = "translate_block_body"
    /\ instr_iter = 3
    /\ {Register("f0"), Register("t1")} \subseteq DOMAIN reg
    /\ Len(to_store) = 1

\* C17: translate_block_body is called once for every node but the first, in
\* the order of the nodes, which is the increasing order of block index, and
\* each call is given the map zero -> NumberLiteral(0) and nothing else
C17_EveryNodeButTheFirstOnce ==
    /\ Len(calls) <= Len(nodes) - 1
    /\ \A k \in 1..Len(calls) :
        /\ calls[k].block = LiftedNodeBlocks[k]
        /\ calls[k].block # nodes[1].block.index
        /\ calls[k].reg = ZeroOnly
    /\ \A j, k \in 1..Len(calls) : j < k => calls[j].block < calls[k].block
    /\ pc = "returned" => CalledBlocks = LiftedNodeBlocks
    /\ (pc = "translate_block_body" /\ instr_iter = 0) =>
           (reg = ZeroOnly /\ to_store = <<>>)

\* C17 witness: translate_to_ast has returned after lifting two blocks, the
\* first of which had changed its register map
C17_Witness ==
    /\ pc = "returned"
    /\ Len(calls) = 2
    /\ blocks[2].instructions[1].mnemonic = "mtc1"
    /\ caught = <<>>

-----------------------------------------------------------------------------
(* Properties of do_flow_analysis: the labels of the blocks *)

\* the blocks of the function have all been built
BlocksBuilt == pc \notin {"build", "StopIteration", "IndexError"}

\* the positions of the body that hold an Instruction after position i
InstructionsAfter(i) == {k \in (i + 1)..Len(body) : body[k].kind = "Instruction"}

\* no label name occurs twice in the body
LabelsDistinct ==
    \A i, j \in 1..Len(body) :
        (i # j /\ body[i].kind = "Label" /\ body[j].kind = "Label") => body[i] # body[j]

\* C16: every Label of the body that an instruction follows is the label of
\* the block that begins with the first instruction after it, and
\* find_block_by_label resolves a JumpTarget of its name to that block; stated
\* for the bodies with distinct label names in which every branch is followed
\* by an instruction, its delay slot
C16_LabelNamesItsBlock ==
    (BlocksBuilt /\ LabelsDistinct /\ EveryBranchHasDelaySlot) =>
        \A i \in 1..Len(body) :
            (body[i].kind = "Label" /\ InstructionsAfter(i) # {}) =>
                LET first == CHOOSE k \in InstructionsAfter(i) :
                                 \A q \in InstructionsAfter(i) : k <= q
                    found == find_block_by_label(blocks, JumpTarget(body[i].name))
                IN  /\ found # None
                    /\ found.label = body[i]
                    /\ found.instructions[1] = body[first]

-----------------------------------------------------------------------------
(* Properties of parse_arg and str *)

\* where str returns, parse_arg returns the Argument again from its string
ParseArgInvertsStrWhereItReturns ==
    /\ (printed # <<>> => pc \in {"parse_str", "parsed_str"})
    /\ (pc = "parsed_str" => reparsed = parsed)

\* C14: for every Argument A that parse_arg returns, str(A) is a string and
\* parse_arg(str(A)) returns A
C14_ParseArgInvertsStr ==
    /\ pc # "TypeError"
    /\ ParseArgInvertsStrWhereItReturns

====
